---- MODULE Spec2Model ----
(***************************************************************************)
(* Model of FfmpegSplitAudio.execute                                       *)
(* (src/nodes/FfmpegSplitAudio/FfmpegSplitAudio.node.ts, lines 152-339).   *)
(*                                                                         *)
(* One pipeline instance is one activation of execute(); run[i] holds the  *)
(* locals of instance i.  The instances share the temp directory (files)   *)
(* and the wall clock (now).  Every await of the source is a step of its   *)
(* own, so instances interleave exactly where the source can yield.        *)
(*                                                                         *)
(* Numbers.  Seconds are counted in quanta: UnitsPerCenti quanta make one  *)
(* hundredth of a second, so toFixed(2) is a real rounding.  segmentLength,*)
(* overlap, startTime and endTime are multiples of a quantum and their     *)
(* sums are exact.  The sum of line 185 adds a parsed decimal fraction to  *)
(* a whole number of seconds; in binary64 that sum is not always the       *)
(* double nearest to the decimal value (00:01:08.04 gives                  *)
(* 68.03999999999999), which is modelled as an error of one quantum, less  *)
(* than half a hundredth (see SumError).                                   *)
(***************************************************************************)
EXTENDS Integers, Sequences, FiniteSets, TLC

\* ---------------------------------------------------------------- bounds
UnitsPerCenti == 4
MaxCenti == 1
MaxParam == 2
MaxPlanned == 4
PlanMaxCenti == 4
PlanMaxParam == 5
MaxItems == 3
MaxNow == 1
MaxUnlinkFaults == 1

Instances == {1, 2}

\* one second, in quanta
Sec == 100 * UnitsPerCenti

\* ------------------------------------------------------- error messages
ErrNone == ""
ErrNoBinary == "This operation expects the node's input data to contain a binary file"
ErrDuration == "Could not extract duration from audio file"
ErrTimeRange == "End time must be greater than start time"
ErrEngine == "Command failed"
ErrTempIO == "temp file I/O failed"

\* ------------------------------------------------------------ temp paths
NoSeg == -1
NoPath == [kind |-> "none", ts |-> 0, item |-> 0, seg |-> NoSeg]

\* join(tmpdir(), `input_${Date.now()}_${itemIndex}.${fileExtension}`);
\* every payload carries the same extension, so it is left out of the path.
TempInputPath(ts, itemIndex) ==
    [kind |-> "input", ts |-> ts, item |-> itemIndex, seg |-> NoSeg]

\* `output_${Date.now()}_${itemIndex}_${segment.index}.${fileExtension}`
SegmentOutputPath(ts, itemIndex, index) ==
    [kind |-> "output", ts |-> ts, item |-> itemIndex, seg |-> index]

\* `output_${Date.now()}_${itemIndex}.${fileExtension}`
ExtractOutputPath(ts, itemIndex) ==
    [kind |-> "output", ts |-> ts, item |-> itemIndex, seg |-> NoSeg]

\* ------------------------------------------------------ duration probing
NoMatch == [h |-> -1, m |-> -1, s |-> -1, f |-> -1]

\* What the regex /Duration: (\d{2}):(\d{2}):(\d{2}\.\d{2})/ can capture
\* from the engine's report on a payload.
ProbeOutputs == [h : {0}, m : {0}, s : {0}, f : 0..MaxCenti]

\* The wider reports the planner is checked on alone.
PlanProbeOutputs == [h : {0}, m : {0, 1}, s : {0, 8}, f : 0..PlanMaxCenti]

\* The error, in quanta, of the binary64 sum of line 185 against the
\* decimal value of the report.  Of the reports drawn here (up to
\* 00:01:08.24) the sum is off for two: 00:01:08.04 gives
\* 68.03999999999999 and 00:01:08.21 gives 68.21000000000001.
SumError(out) ==
    IF out.h = 0 /\ out.m = 1 /\ out.s = 8 /\ out.f = 4 THEN -1
    ELSE IF out.h = 0 /\ out.m = 1 /\ out.s = 8 /\ out.f = 21 THEN 1
    ELSE 0

\* hours * 3600 + minutes * 60 + seconds
TotalDuration(out) ==
    (out.h * 3600 + out.m * 60 + out.s) * Sec + out.f * UnitsPerCenti
        + SumError(out)

\* -------------------------------------------------------------- planner
\* parseFloat(x.toFixed(2)): the nearest hundredth, a tie going away from 0.
RoundHalfUp(x) ==
    ((2 * x + UnitsPerCenti) \div (2 * UnitsPerCenti)) * UnitsPerCenti

ToFixed2(x) == IF x >= 0 THEN RoundHalfUp(x) ELSE 0 - RoundHalfUp(0 - x)

Min(a, b) == IF a < b THEN a ELSE b

\* const step = segmentLength - overlap;
Step(segmentLength, overlap) == segmentLength - overlap

\* The loop test with <= for <.
LoopConditionInclusive(currentStart, totalDuration) ==
    currentStart <= totalDuration

\* while (currentStart < totalDuration)
LoopCondition(currentStart, totalDuration) == currentStart < totalDuration

\* const currentEnd = Math.min(currentStart + segmentLength, totalDuration);
CurrentEnd(currentStart, segmentLength, totalDuration) ==
    Min(currentStart + segmentLength, totalDuration)

\* { index: segmentIndex, start: ..toFixed(2), end: ..toFixed(2) }
Segment(segmentIndex, currentStart, currentEnd) ==
    [index |-> segmentIndex,
     start |-> ToFixed2(currentStart),
     end |-> ToFixed2(currentEnd)]

\* ----------------------------------------------------------------- state
VARIABLES run, files, now, unlinkFaults

vars == <<run, files, now, unlinkFaults>>

\* The locals of one record's processing, as they are before the record.
FreshLocals ==
    [segmentLength |-> 0, overlap |-> 0, outputSegments |-> FALSE,
     startTime |-> 0, endTime |-> 0,
     tempInputPath |-> NoPath, tempOutputPath |-> NoPath,
     tempOutputPaths |-> <<>>, cleanIdx |-> 0,
     totalDuration |-> 0, segments |-> <<>>, currentStart |-> 0,
     segmentIndex |-> 0, segPos |-> 0, binaryOutput |-> <<>>,
     error |-> ErrNone]

\* An activation of execute() before its first record (lines 153-157).
Activation(operation, continueOnFail, items, pc) ==
    [pc |-> pc, operation |-> operation, continueOnFail |-> continueOnFail,
     items |-> items, itemIndex |-> 0, returnData |-> <<>>,
     thrown |-> [message |-> ErrNone, itemIndex |-> -1],
     engineLog |-> <<>>] @@ FreshLocals

Operations == {"calculateSegments", "extractSegment"}

Idle == Activation("calculateSegments", FALSE, <<>>, "idle")

\* ---------------------------------------------------------- input records
\* An input record with its node parameters: whether it carries the binary
\* property, what the engine reports as the payload's duration (probe), and
\* the parameters getNodeParameter returns for it.
Item(hasBinary, probe, segmentLength, overlap, outputSegments, startTime, endTime) ==
    [hasBinary |-> hasBinary, probe |-> probe,
     segmentLength |-> segmentLength, overlap |-> overlap,
     outputSegments |-> outputSegments,
     startTime |-> startTime, endTime |-> endTime]

\* hours * 3600 + minutes * 60 + seconds of a record's payload
ItemDuration(item) == TotalDuration(item.probe)

\* Records are drawn so that a plan that ends has at most MaxPlanned segments.
Plannable(item) ==
    (item.probe # NoMatch /\ Step(item.segmentLength, item.overlap) > 0)
        => ItemDuration(item)
              <= MaxPlanned * Step(item.segmentLength, item.overlap)

\* The records of a planning run, the parameters in quanta.
PlanningItems(probes, segLens, overlaps) ==
    {it \in
        {Item(b, pr, sl, ov, os, 0, 0) :
            b \in BOOLEAN, pr \in {NoMatch} \cup probes,
            sl \in segLens, ov \in overlaps, os \in BOOLEAN} :
        Plannable(it)}

\* The records of a point-extraction run.
ExtractionItems(times) ==
    {Item(b, NoMatch, 0, 0, FALSE, st, en) :
        b \in BOOLEAN, st \in times, en \in times}

ItemsOf(operation) ==
    IF operation = "calculateSegments"
    THEN PlanningItems(ProbeOutputs, 1..MaxParam, 0..MaxParam)
    ELSE ExtractionItems(0..MaxParam)

\* The few records the runs of several records and of several instances
\* are made of: a record without the payload, a plan of one segment with
\* and without extraction; a valid and an empty time range.
FewItemsOf(operation) ==
    IF operation = "calculateSegments"
    THEN {it \in PlanningItems({[h |-> 0, m |-> 0, s |-> 0, f |-> MaxCenti]},
                               {MaxCenti * UnitsPerCenti}, {0}) :
            /\ it.probe # NoMatch
            /\ it.hasBinary \/ ~it.outputSegments}
    ELSE {it \in ExtractionItems({MaxParam - 1, MaxParam}) :
            it.hasBinary /\ it.startTime = MaxParam - 1}

SeqsUpTo(S, n) == UNION {[1..k -> S] : k \in 0..n}

Start ==
    /\ files = {}
    /\ now = 0
    /\ unlinkFaults = 0

\* One pipeline instance, a run over at most one record.
Init ==
    /\ \E op \in Operations, cof \in BOOLEAN :
       \E items \in SeqsUpTo(ItemsOf(op), 1) :
          run = [i \in Instances |->
                    IF i = 1 THEN Activation(op, cof, items, "loop") ELSE Idle]
    /\ Start

\* One pipeline instance, a run over up to MaxItems records.
InitRun ==
    /\ \E op \in Operations, cof \in BOOLEAN :
       \E items \in SeqsUpTo(FewItemsOf(op), MaxItems) :
          run = [i \in Instances |->
                    IF i = 1 THEN Activation(op, cof, items, "loop") ELSE Idle]
    /\ Start

\* Two pipeline instances on one host, one record each.
InitConcurrent ==
    /\ \E op \in [Instances -> Operations], cof \in BOOLEAN :
       \E items \in [Instances -> FewItemsOf(op[1]) \cup FewItemsOf(op[2])] :
          /\ \A i \in Instances : items[i] \in FewItemsOf(op[i])
          /\ run = [i \in Instances |->
                      Activation(op[i], cof, <<items[i]>>, "loop")]
    /\ Start

\* ------------------------------------------------------ record plumbing
\* returnData.push(record)
Push(s, record) == [s EXCEPT !.returnData = Append(@, record)]

\* itemIndex++ : the record's locals go out of scope.
NextItem(s) == FreshLocals @@ [s EXCEPT !.itemIndex = @ + 1, !.pc = "loop"]

\* The error record keeping the binary payloads extracted so far.
ErrorRecordKeepingBinary(s) ==
    [kind |-> "error", json |-> [error |-> s.error],
     binary |-> s.binaryOutput, pairedItem |-> s.itemIndex]

\* { json: { error: error.message }, pairedItem: itemIndex }
ErrorRecord(s) ==
    [kind |-> "error", json |-> [error |-> s.error], binary |-> <<>>,
     pairedItem |-> s.itemIndex]

\* the JSON summary of lines 234-240 and 251-257
PlanJson(s) ==
    [totalDuration |-> s.totalDuration, segmentLength |-> s.segmentLength,
     overlap |-> s.overlap, segmentCount |-> Len(s.segments),
     segments |-> s.segments]

\* lines 250-259
PlanRecord(s) ==
    [kind |-> "plan", json |-> PlanJson(s), binary |-> <<>>,
     pairedItem |-> s.itemIndex]

\* lines 233-243
BatchRecord(s) ==
    [kind |-> "batch", json |-> PlanJson(s), binary |-> s.binaryOutput,
     pairedItem |-> s.itemIndex]

\* lines 306-316
ExtractRecord(s) ==
    [kind |-> "extract",
     json |-> [startTime |-> s.startTime, endTime |-> s.endTime,
               duration |-> s.endTime - s.startTime],
     binary |-> <<[key |-> 0, ss |-> s.startTime,
                   t |-> s.endTime - s.startTime]>>,
     pairedItem |-> s.itemIndex]

\* The catch block recovering whatever the failure mode.
CatchBlockAlwaysRecovers(s) == NextItem(Push(s, ErrorRecord(s)))

\* The catch block recovering without an output record.
CatchBlockWithoutRecord(s) ==
    IF s.continueOnFail
    THEN NextItem(s)
    ELSE FreshLocals @@
         [s EXCEPT !.pc = "thrown",
                   !.thrown = [message |-> s.error, itemIndex |-> s.itemIndex]]

\* catch (error) { ... } of lines 322-335
CatchBlock(s) ==
    IF s.continueOnFail
    THEN NextItem(Push(s, ErrorRecord(s)))
    ELSE FreshLocals @@
         [s EXCEPT !.pc = "thrown",
                   !.thrown = [message |-> s.error, itemIndex |-> s.itemIndex]]

\* The end of the outer try block: the catch runs when an error is pending.
EndOfTry(s) == IF s.error # ErrNone THEN CatchBlock(s) ELSE NextItem(s)

\* An error thrown outside the inner try blocks (lines 159-170, 265-282).
ThrowOutside(s, message) == CatchBlock([s EXCEPT !.error = message])

\* finally { await unlink(tempInputPath) } of lines 261-263 and 317-320
ToInputCleanup(s) == [s EXCEPT !.pc = "unlinkInput"]

\* The batch cleanup going straight to the input file.
BatchCleanupSkipped(s) == [s EXCEPT !.pc = "unlinkInput"]

\* finally { for (const tempPath of tempOutputPaths) ... } of lines 244-248
ToBatchCleanup(s) ==
    IF Len(s.tempOutputPaths) = 0
    THEN ToInputCleanup(s)
    ELSE [s EXCEPT !.pc = "unlinkOutputs", !.cleanIdx = 1]

\* new Date.now() values: the clock never runs backwards
Timestamps == now..MaxNow

\* await unlink(path).catch(() => {}): the file goes, or the deletion fails
\* and the failure is swallowed.  <<files after, unlinkFaults after>>
UnlinkOutcomes(path) ==
    IF path \in files
    THEN {<<files \ {path}, unlinkFaults>>}
            \cup (IF unlinkFaults < MaxUnlinkFaults
                  THEN {<<files, unlinkFaults + 1>>} ELSE {})
    ELSE {<<files, unlinkFaults>>}

Update(i, s) == run' = [run EXCEPT ![i] = s]

\* ---------------------------------------------------------------- steps
\* items[itemIndex]
CurrentItem(s) == s.items[s.itemIndex + 1]

\* lines 157-161: the loop test, then the record's binary payload
ReadBinary(i) ==
    LET s == run[i] IN
    /\ s.pc = "loop" /\ s.itemIndex < Len(s.items)
    /\ Update(i, IF CurrentItem(s).hasBinary
                 THEN [s EXCEPT !.pc = "params"]
                 ELSE ThrowOutside(s, ErrNoBinary))
    /\ UNCHANGED <<files, now, unlinkFaults>>

\* line 338: return [returnData]
Return(i) ==
    LET s == run[i] IN
    /\ s.pc = "loop" /\ ~(s.itemIndex < Len(s.items))
    /\ Update(i, [s EXCEPT !.pc = "returned"])
    /\ UNCHANGED <<files, now, unlinkFaults>>

\* lines 163-169: the planning parameters and the input temp path
CalcParams(i) ==
    LET s == run[i] IN
    /\ s.pc = "params" /\ s.operation = "calculateSegments"
    /\ \E ts \in Timestamps :
          /\ now' = ts
          /\ Update(i, [s EXCEPT
                !.pc = "writeInput",
                !.segmentLength = CurrentItem(s).segmentLength,
                !.overlap = CurrentItem(s).overlap,
                !.outputSegments = CurrentItem(s).outputSegments,
                !.tempInputPath = TempInputPath(ts, s.itemIndex)])
    /\ UNCHANGED <<files, unlinkFaults>>

\* lines 265-271: the extraction parameters
ExtractParams(i) ==
    LET s == run[i] IN
    /\ s.pc = "params" /\ s.operation = "extractSegment"
    /\ Update(i, [s EXCEPT !.pc = "checkRange",
                           !.startTime = CurrentItem(s).startTime,
                           !.endTime = CurrentItem(s).endTime])
    /\ UNCHANGED <<files, now, unlinkFaults>>

\* The range check with < for <=.
InvalidTimeRangeStrict(startTime, endTime) == endTime < startTime

\* if (endTime <= startTime)
InvalidTimeRange(startTime, endTime) == endTime <= startTime

\* lines 273-280: the range check, then the two temp paths
CheckRange(i) ==
    LET s == run[i] IN
    /\ s.pc = "checkRange"
    /\ \/ /\ InvalidTimeRange(s.startTime, s.endTime)
          /\ Update(i, ThrowOutside(s, ErrTimeRange))
          /\ UNCHANGED now
       \/ /\ ~InvalidTimeRange(s.startTime, s.endTime)
          /\ \E ts1 \in Timestamps :
             \E ts2 \in ts1..MaxNow :
                /\ now' = ts2
                /\ Update(i, [s EXCEPT
                      !.pc = "writeInput",
                      !.tempInputPath = TempInputPath(ts1, s.itemIndex),
                      !.tempOutputPath = ExtractOutputPath(ts2, s.itemIndex)])
    /\ UNCHANGED <<files, unlinkFaults>>

\* lines 170 and 282: await writeFile(tempInputPath, binaryDataBuffer),
\* outside the try blocks.  A failed write may leave the file behind.
WriteInput(i) ==
    LET s == run[i]
        p == s.tempInputPath
        next == IF s.operation = "calculateSegments" THEN "probe" ELSE "extract"
    IN
    /\ s.pc = "writeInput"
    /\ \/ /\ files' = files \cup {p}
          /\ Update(i, [s EXCEPT !.pc = next])
       \/ \E left \in BOOLEAN :
             /\ files' = IF left THEN files \cup {p} ELSE files
             /\ Update(i, ThrowOutside(s, ErrTempIO))
    /\ UNCHANGED <<now, unlinkFaults>>

\* An engine invocation, as the history of the run keeps it.
Invocation(s, kind, seg) ==
    [item |-> s.itemIndex, kind |-> kind, seg |-> seg]

Logged(s, inv) == [s EXCEPT !.engineLog = Append(@, inv)]

\* lines 173-185: the duration probe and its parsing
Probe(i) ==
    LET s == Logged(run[i], Invocation(run[i], "probe", NoSeg)) IN
    /\ s.pc = "probe"
    /\ \/ \* the command fails (the engine, or grep finding no Duration line)
          Update(i, ToInputCleanup([s EXCEPT !.error = ErrEngine]))
       \/ \* a Duration line the pattern does not match
          /\ s.tempInputPath \in files
          /\ CurrentItem(s).probe = NoMatch
          /\ Update(i, ToInputCleanup([s EXCEPT !.error = ErrDuration]))
       \/ /\ s.tempInputPath \in files
          /\ CurrentItem(s).probe # NoMatch
          /\ Update(i, [s EXCEPT !.pc = "plan",
                                 !.totalDuration = ItemDuration(CurrentItem(s)),
                                 !.segments = <<>>,
                                 !.currentStart = 0,
                                 !.segmentIndex = 0])
    /\ UNCHANGED <<files, now, unlinkFaults>>

\* The planner alone: a planning run over one record, right after the probe
\* of the record, the record drawn from the wider sets.
InitPlanner ==
    /\ \E cof \in BOOLEAN :
       \E item \in PlanningItems(PlanProbeOutputs,
                                 (1..PlanMaxParam) \cup {30 * Sec},
                                 0..PlanMaxParam) :
          LET a == Activation("calculateSegments", cof, <<item>>, "plan")
              s == [a EXCEPT
                      !.segmentLength = item.segmentLength,
                      !.overlap = item.overlap,
                      !.outputSegments = item.outputSegments,
                      !.tempInputPath = TempInputPath(0, 0),
                      !.totalDuration = ItemDuration(item)]
          IN  /\ item.hasBinary /\ item.probe # NoMatch
              /\ run = [i \in Instances |->
                    IF i = 1
                    THEN Logged(s, Invocation(s, "probe", NoSeg))
                    ELSE Idle]
    /\ files = {TempInputPath(0, 0)}
    /\ now = 0
    /\ unlinkFaults = 0

\* PlanStep with the segment index counted on from the record index.
PlanStepIndexedFromItem(i) ==
    LET s == run[i] IN
    /\ s.pc = "plan"
    /\ LoopCondition(s.currentStart, s.totalDuration)
    /\ Len(s.segments) < MaxPlanned
    /\ Update(i, [s EXCEPT
          !.segments = Append(@,
              Segment(s.segmentIndex + s.itemIndex, s.currentStart,
                      CurrentEnd(s.currentStart, s.segmentLength,
                                 s.totalDuration))),
          !.currentStart = @ + Step(s.segmentLength, s.overlap),
          !.segmentIndex = @ + 1])
    /\ UNCHANGED <<files, now, unlinkFaults>>

\* lines 192-201: one turn of the segment loop
PlanStep(i) ==
    LET s == run[i] IN
    /\ s.pc = "plan"
    /\ LoopCondition(s.currentStart, s.totalDuration)
    /\ Len(s.segments) < MaxPlanned
    /\ Update(i, [s EXCEPT
          !.segments = Append(@,
              Segment(s.segmentIndex, s.currentStart,
                      CurrentEnd(s.currentStart, s.segmentLength,
                                 s.totalDuration))),
          !.currentStart = @ + Step(s.segmentLength, s.overlap),
          !.segmentIndex = @ + 1])
    /\ UNCHANGED <<files, now, unlinkFaults>>

\* lines 203-207 and 249-260: the loop has ended
PlanExit(i) ==
    LET s == run[i] IN
    /\ s.pc = "plan"
    /\ ~LoopCondition(s.currentStart, s.totalDuration)
    /\ Update(i, IF s.outputSegments
                 THEN [s EXCEPT !.pc = "segment", !.binaryOutput = <<>>,
                                !.tempOutputPaths = <<>>, !.segPos = 1]
                 ELSE ToInputCleanup(Push(s, PlanRecord(s))))
    /\ UNCHANGED <<files, now, unlinkFaults>>

\* lines 210-216: the next segment's output path; lines 233-243 after the last
SegmentBegin(i) ==
    LET s == run[i] IN
    /\ s.pc = "segment"
    /\ \/ /\ s.segPos <= Len(s.segments)
          /\ \E ts \in Timestamps :
                LET tout == SegmentOutputPath(ts, s.itemIndex,
                                              s.segments[s.segPos].index)
                IN  /\ now' = ts
                    /\ Update(i, [s EXCEPT
                          !.pc = "segmentExec",
                          !.tempOutputPaths = Append(@, tout)])
       \/ /\ s.segPos > Len(s.segments)
          /\ Update(i, ToBatchCleanup(Push(s, BatchRecord(s))))
          /\ UNCHANGED now
    /\ UNCHANGED <<files, unlinkFaults>>

\* The engine writes outputPath from inputPath: it succeeds only when the
\* input is there and the output is not (it never overwrites unasked); a
\* failed invocation may leave a partial output behind.
\* <<succeeded, files after>>
EngineOutcomes(inputPath, outputPath) ==
    (IF inputPath \in files /\ outputPath \notin files
     THEN {<<TRUE, files \cup {outputPath}>>} ELSE {})
        \cup {<<FALSE, files>>, <<FALSE, files \cup {outputPath}>>}

\* SegmentExec with a failed invocation tried again.
SegmentExecRetrying(i) ==
    LET seg == run[i].segments[run[i].segPos]
        tout == run[i].tempOutputPaths[Len(run[i].tempOutputPaths)]
        s == Logged(run[i], Invocation(run[i], "extract", seg.index))
    IN
    /\ run[i].pc = "segmentExec"
    /\ \E o \in EngineOutcomes(s.tempInputPath, tout) :
          /\ files' = o[2]
          /\ Update(i, IF o[1]
                       THEN [s EXCEPT !.pc = "segmentRead"]
                       ELSE IF Len(s.engineLog) <= MaxPlanned
                            THEN s
                            ELSE ToBatchCleanup([s EXCEPT !.error = ErrEngine]))
    /\ UNCHANGED <<now, unlinkFaults>>

\* lines 211 and 218-220: the extraction of one segment
SegmentExec(i) ==
    LET seg == run[i].segments[run[i].segPos]
        tout == run[i].tempOutputPaths[Len(run[i].tempOutputPaths)]
        s == Logged(run[i], Invocation(run[i], "extract", seg.index))
    IN
    /\ run[i].pc = "segmentExec"
    /\ \E o \in EngineOutcomes(s.tempInputPath, tout) :
          /\ files' = o[2]
          /\ Update(i, IF o[1]
                       THEN [s EXCEPT !.pc = "segmentRead"]
                       ELSE ToBatchCleanup([s EXCEPT !.error = ErrEngine]))
    /\ UNCHANGED <<now, unlinkFaults>>

\* SegmentRead with the segment's file deleted as soon as it has been read.
SegmentReadThenUnlink(i) ==
    LET s == run[i]
        seg == s.segments[s.segPos]
        tout == s.tempOutputPaths[Len(s.tempOutputPaths)]
    IN
    /\ s.pc = "segmentRead"
    /\ \/ /\ tout \in files
          /\ files' = files \ {tout}
          /\ Update(i, [s EXCEPT
                !.pc = "segment",
                !.binaryOutput = Append(@, [key |-> seg.index + 1,
                                            ss |-> seg.start,
                                            t |-> seg.end - seg.start]),
                !.segPos = @ + 1])
       \/ /\ Update(i, ToBatchCleanup([s EXCEPT !.error = ErrTempIO]))
          /\ UNCHANGED files
    /\ UNCHANGED <<now, unlinkFaults>>

\* SegmentRead with the property named by the segment's index, not index + 1.
SegmentReadKeyedByIndex(i) ==
    LET s == run[i]
        seg == s.segments[s.segPos]
        tout == s.tempOutputPaths[Len(s.tempOutputPaths)]
    IN
    /\ s.pc = "segmentRead"
    /\ \/ /\ tout \in files
          /\ Update(i, [s EXCEPT
                !.pc = "segment",
                !.binaryOutput = Append(@, [key |-> seg.index,
                                            ss |-> seg.start,
                                            t |-> seg.end - seg.start]),
                !.segPos = @ + 1])
       \/ Update(i, ToBatchCleanup([s EXCEPT !.error = ErrTempIO]))
    /\ UNCHANGED <<files, now, unlinkFaults>>

\* lines 222-230: the segment's file is read and kept as property index + 1
SegmentRead(i) ==
    LET s == run[i]
        seg == s.segments[s.segPos]
        tout == s.tempOutputPaths[Len(s.tempOutputPaths)]
    IN
    /\ s.pc = "segmentRead"
    /\ \/ /\ tout \in files
          /\ Update(i, [s EXCEPT
                !.pc = "segment",
                !.binaryOutput = Append(@, [key |-> seg.index + 1,
                                            ss |-> seg.start,
                                            t |-> seg.end - seg.start]),
                !.segPos = @ + 1])
       \/ Update(i, ToBatchCleanup([s EXCEPT !.error = ErrTempIO]))
    /\ UNCHANGED <<files, now, unlinkFaults>>

\* lines 244-248: one turn of the finally loop over tempOutputPaths
UnlinkOutputs(i) ==
    LET s == run[i] IN
    /\ s.pc = "unlinkOutputs"
    /\ \E o \in UnlinkOutcomes(s.tempOutputPaths[s.cleanIdx]) :
          /\ files' = o[1]
          /\ unlinkFaults' = o[2]
    /\ Update(i, IF s.cleanIdx < Len(s.tempOutputPaths)
                 THEN [s EXCEPT !.cleanIdx = @ + 1]
                 ELSE ToInputCleanup(s))
    /\ UNCHANGED now

\* UnlinkInput with a failed deletion becoming the record's error.
UnlinkInputReporting(i) ==
    LET s == run[i] IN
    /\ s.pc = "unlinkInput"
    /\ \E o \in UnlinkOutcomes(s.tempInputPath) :
          LET r == IF o[2] > unlinkFaults
                   THEN [s EXCEPT !.error = ErrTempIO] ELSE s
          IN  /\ files' = o[1]
              /\ unlinkFaults' = o[2]
              /\ Update(i, IF s.operation = "calculateSegments"
                           THEN EndOfTry(r)
                           ELSE [r EXCEPT !.pc = "unlinkOutput"])
    /\ UNCHANGED now

\* lines 261-263 and 318: await unlink(tempInputPath).catch(() => {})
UnlinkInput(i) ==
    LET s == run[i] IN
    /\ s.pc = "unlinkInput"
    /\ \E o \in UnlinkOutcomes(s.tempInputPath) :
          /\ files' = o[1]
          /\ unlinkFaults' = o[2]
    /\ Update(i, IF s.operation = "calculateSegments"
                 THEN EndOfTry(s)
                 ELSE [s EXCEPT !.pc = "unlinkOutput"])
    /\ UNCHANGED now

\* line 319: await unlink(tempOutputPath).catch(() => {})
UnlinkOutput(i) ==
    LET s == run[i] IN
    /\ s.pc = "unlinkOutput"
    /\ \E o \in UnlinkOutcomes(s.tempOutputPath) :
          /\ files' = o[1]
          /\ unlinkFaults' = o[2]
    /\ Update(i, EndOfTry(s))
    /\ UNCHANGED now

\* lines 285-287: the extraction of the requested range
ExtractExec(i) ==
    LET s == Logged(run[i], Invocation(run[i], "extract", NoSeg)) IN
    /\ s.pc = "extract"
    /\ \E o \in EngineOutcomes(s.tempInputPath, s.tempOutputPath) :
          /\ files' = o[2]
          /\ Update(i, IF o[1]
                       THEN [s EXCEPT !.pc = "extractRead"]
                       ELSE ToInputCleanup([s EXCEPT !.error = ErrEngine]))
    /\ UNCHANGED <<now, unlinkFaults>>

\* lines 289-316: the output file is read and the record is pushed
ExtractRead(i) ==
    LET s == run[i] IN
    /\ s.pc = "extractRead"
    /\ \/ /\ s.tempOutputPath \in files
          /\ Update(i, ToInputCleanup(Push(s, ExtractRecord(s))))
       \/ Update(i, ToInputCleanup([s EXCEPT !.error = ErrTempIO]))
    /\ UNCHANGED <<files, now, unlinkFaults>>

\* ----------------------------------------------------------------- runs
Next ==
    \E i \in Instances :
        \/ ReadBinary(i)
        \/ Return(i)
        \/ CalcParams(i)
        \/ ExtractParams(i)
        \/ CheckRange(i)
        \/ WriteInput(i)
        \/ Probe(i)
        \/ PlanStep(i)
        \/ PlanExit(i)
        \/ SegmentBegin(i)
        \/ SegmentExec(i)
        \/ SegmentRead(i)
        \/ UnlinkOutputs(i)
        \/ UnlinkInput(i)
        \/ UnlinkOutput(i)
        \/ ExtractExec(i)
        \/ ExtractRead(i)

Spec == Init /\ [][Next]_vars

RunSpec == InitRun /\ [][Next]_vars

ConcurrentSpec == InitConcurrent /\ [][Next]_vars

NextPlanner == \E i \in Instances : PlanStep(i) \/ PlanExit(i)

PlannerSpec == InitPlanner /\ [][NextPlanner]_vars

\* Batch extraction alone: one record with its payload and outputSegments
\* set, with steps below and from a hundredth of a second.
BatchItems ==
    {it \in PlanningItems([h : {0}, m : {0}, s : {0}, f : 0..PlanMaxCenti],
                          {1, UnitsPerCenti, UnitsPerCenti + 1}, {0, 1}) :
        /\ it.hasBinary /\ it.outputSegments /\ it.probe # NoMatch
        /\ Step(it.segmentLength, it.overlap) > 0}

InitBatch ==
    /\ \E cof \in BOOLEAN, item \in BatchItems :
          run = [i \in Instances |->
                    IF i = 1
                    THEN Activation("calculateSegments", cof, <<item>>, "loop")
                    ELSE Idle]
    /\ Start

NextBatch ==
    \E i \in Instances :
        \/ ReadBinary(i)
        \/ Return(i)
        \/ CalcParams(i)
        \/ WriteInput(i)
        \/ Probe(i)
        \/ PlanStep(i)
        \/ PlanExit(i)
        \/ SegmentBegin(i)
        \/ SegmentExec(i)
        \/ SegmentRead(i)
        \/ UnlinkOutputs(i)
        \/ UnlinkInput(i)

BatchSpec == InitBatch /\ [][NextBatch]_vars

\* --------------------------------------------------------------- claims
Range(seq) == {seq[k] : k \in 1..Len(seq)}

\* ceil(a / b) for a >= 0 and b > 0
CeilDiv(a, b) == (a + b - 1) \div b

\* The segment loop of a record has just ended.
LoopEnded(s) ==
    s.pc = "plan" /\ ~LoopCondition(s.currentStart, s.totalDuration)

\* totalDuration > 0, segmentLength > 0 and 0 <= overlap < segmentLength
ValidPlannerInput(s) ==
    /\ s.totalDuration > 0
    /\ s.segmentLength > 0
    /\ 0 <= s.overlap /\ s.overlap < s.segmentLength

\* C1 (as claimed): a planning record with overlap >= segmentLength and a
\* positive total duration fails with InvalidSegmentationParameters instead
\* of entering the segment loop, so the loop emits no segment for it.
C1_StepNotPositiveIsRejected ==
    \A i \in Instances :
        (/\ run[i].pc = "plan"
         /\ run[i].totalDuration > 0
         /\ Step(run[i].segmentLength, run[i].overlap) <= 0)
            => run[i].segments = <<>>

C3_NoTempFileRemains ==
    \A i \in Instances :
        (run[i].pc \in {"returned", "thrown"} /\ unlinkFaults = 0)
            => files = {}

\* The output temp files of the record in hand that exist.
OutputFilesOf(s) == Range(s.tempOutputPaths) \cap files

\* The record is inside the per-segment loop of lines 210-231.
InSegmentLoop(s) == s.pc \in {"segment", "segmentExec", "segmentRead"}

C5_ZeroDurationIsRejected ==
    \A i \in Instances :
        \A r \in Range(run[i].returnData) :
            ~(r.kind \in {"plan", "batch"} /\ r.json.totalDuration <= 0)

\* The temp paths an instance holds for the record in hand.
HeldPaths(s) ==
    ({s.tempInputPath, s.tempOutputPath} \cup Range(s.tempOutputPaths))
        \ {NoPath}

\* C6 (as claimed): two pipeline instances never hold the same temp path.
C6_InstancesNeverShareAPath ==
    \A i, j \in Instances :
        i # j => HeldPaths(run[i]) \cap HeldPaths(run[j]) = {}

\* The record with index k has failed with the given message: recovered as
\* the last output record, or thrown.
FailedWith(s, k, message) ==
    \/ s.thrown = [message |-> message, itemIndex |-> k]
    \/ /\ s.itemIndex = k + 1
       /\ Len(s.returnData) > 0
       /\ s.returnData[Len(s.returnData)] =
             [kind |-> "error", json |-> [error |-> message],
              binary |-> <<>>, pairedItem |-> k]

\* C7: in extractSegment a record with endTime <= startTime fails with
\* 'End time must be greater than start time' in the step that checks the
\* range; up to and including that step no engine invocation is made and no
\* temp path or temp file exists for the record.
C7_InvalidRangeFailsBeforeEngineAndFiles ==
    [][\A i \in Instances :
          (/\ run[i].pc = "checkRange"
           /\ run[i].endTime <= run[i].startTime
           /\ run'[i] # run[i])
             => /\ FailedWith(run'[i], run[i].itemIndex, ErrTimeRange)
                /\ HeldPaths(run[i]) = {} /\ HeldPaths(run'[i]) = {}
                /\ files' = files
                /\ \A p \in files : p.item # run[i].itemIndex
                /\ run'[i].engineLog = run[i].engineLog
                /\ \A e \in Range(run[i].engineLog) :
                      e.item # run[i].itemIndex]_vars

\* C7 witness: a point extraction with endTime <= startTime has failed.
C7_Witness ==
    \E i \in Instances :
        /\ run[i].operation = "extractSegment"
        /\ \E k \in 0..(Len(run[i].items) - 1) :
              /\ run[i].items[k + 1].endTime <= run[i].items[k + 1].startTime
              /\ FailedWith(run[i], k, ErrTimeRange)

\* C8 (as claimed): for valid planner inputs the first segment starts at 0
\* and the last segment ends exactly at totalDuration.
C8_LastEndIsTotalDuration ==
    \A i \in Instances :
        (LoopEnded(run[i]) /\ ValidPlannerInput(run[i]))
            => /\ Len(run[i].segments) >= 1
               /\ run[i].segments[1].start = 0
               /\ run[i].segments[Len(run[i].segments)].end
                     = run[i].totalDuration

\* The records of the run that have failed.
Failed(s) ==
    {r.pairedItem : r \in {x \in Range(s.returnData) : x.kind = "error"}}
        \cup (IF s.thrown.itemIndex >= 0 THEN {s.thrown.itemIndex} ELSE {})

\* The output records are those of the records 0 .. n-1, in order.
PairedInOrder(s, n) ==
    /\ Len(s.returnData) = n
    /\ \A k \in 1..n : s.returnData[k].pairedItem = k - 1

\* C9: without continueOnFail the run stops at the first failing record k:
\* the error is thrown for k, no later record is taken up (no parameters,
\* temp paths, temp files or engine invocations of a later record), and the
\* output records of the k earlier, successful records are all still there.
C9_StopsAtFirstFailure ==
    \A i \in Instances :
        LET s == run[i] IN
        ~s.continueOnFail =>
            \A k \in Failed(s) :
                /\ s.pc = "thrown" /\ s.thrown.itemIndex = k
                /\ s.itemIndex = k
                /\ HeldPaths(s) = {}
                /\ s.segmentLength = 0 /\ s.startTime = 0 /\ s.endTime = 0
                /\ \A e \in Range(s.engineLog) : e.item <= k
                /\ \A p \in files : p.item <= k
                /\ PairedInOrder(s, k)
                /\ \A r \in Range(s.returnData) : r.kind # "error"

\* C9 witness: a run without continueOnFail has thrown at its second record,
\* with the first record's output kept and a third record never taken up.
C9_Witness ==
    \E i \in Instances :
        /\ ~run[i].continueOnFail
        /\ run[i].pc = "thrown"
        /\ run[i].thrown.itemIndex = 1
        /\ Len(run[i].returnData) = 1
        /\ Len(run[i].items) > 2

\* C10: with continueOnFail, a run that has returned holds exactly one
\* output record per input record, in input order, the k-th paired with k.
C10_OneRecordPerItemInOrder ==
    \A i \in Instances :
        (run[i].continueOnFail /\ run[i].pc = "returned")
            => PairedInOrder(run[i], Len(run[i].items))

\* C10 witness: a run with continueOnFail has returned with failed and
\* successful records mixed.
C10_Witness ==
    \E i \in Instances :
        /\ run[i].continueOnFail /\ run[i].pc = "returned"
        /\ Len(run[i].items) >= 2
        /\ \E r \in Range(run[i].returnData) : r.kind = "error"
        /\ \E r \in Range(run[i].returnData) : r.kind # "error"
        /\ run[i].returnData[1].kind = "error"

\* The output records of the run paired with the record of index k.
RecordsOf(s, k) ==
    {n \in 1..Len(s.returnData) : s.returnData[n].pairedItem = k}

\* The messages a record can fail with.
Failures == {ErrNoBinary, ErrDuration, ErrTimeRange, ErrEngine, ErrTempIO}

\* C11: with continueOnFail no record has more than one output record; a
\* record with a failure pending has no output record yet, so its failure
\* came before its output record was assembled; and every error record is
\* { error: message } for one of the failures, paired with its record, with
\* no binary payload, whatever had been extracted for the record before.
C11_FailedRecordIsErrorOnly ==
    \A i \in Instances :
        LET s == run[i] IN
        s.continueOnFail =>
            /\ \A k \in 0..Len(s.items) : Cardinality(RecordsOf(s, k)) <= 1
            /\ s.error # ErrNone => RecordsOf(s, s.itemIndex) = {}
            /\ \A k \in 0..(s.itemIndex - 1) :
                  Cardinality(RecordsOf(s, k)) = 1
            /\ \A r \in Range(s.returnData) :
                  r.kind = "error" =>
                      /\ r.binary = <<>>
                      /\ r.json \in [error : Failures]

\* C11 witness: with continueOnFail a batch record has been recovered as an
\* error record after its first segment had been extracted and read.
C11_Witness ==
    \E i \in Instances :
        /\ run[i].continueOnFail
        /\ \E r \in Range(run[i].returnData) :
              /\ r.kind = "error" /\ r.binary = <<>>
              /\ \E e \in Range(run[i].engineLog) :
                    e.item = r.pairedItem /\ e.kind = "extract" /\ e.seg >= 1

\* The binary properties of a batch record are those of its segments: as
\* many as segmentCount, the k-th named _k and holding the extraction of
\* the segment of index k - 1.
PropertiesMatchSegments(r) ==
    /\ r.json.segmentCount = Len(r.json.segments)
    /\ Len(r.binary) = r.json.segmentCount
    /\ \A k \in 1..Len(r.binary) :
          /\ r.binary[k].key = k
          /\ r.json.segments[k].index = k - 1
          /\ r.binary[k].ss = r.json.segments[k].start
          /\ r.binary[k].t =
                r.json.segments[k].end - r.json.segments[k].start

C13_SegmentsWellFormed ==
    \A i \in Instances :
        LET s == run[i] IN
        (s.pc = "plan" /\ ValidPlannerInput(s)) =>
            \A k \in 1..Len(s.segments) :
                /\ 0 <= s.segments[k].start
                /\ s.segments[k].start < s.segments[k].end
                /\ s.segments[k].end - s.segments[k].start <= s.segmentLength
                /\ k > 1 =>
                      /\ s.segments[k].start =
                            s.segments[k - 1].start
                               + Step(s.segmentLength, s.overlap)
                      /\ s.segments[k].start <= s.segments[k - 1].end

\* The segment indexes of the extract invocations made for record k, in the
\* order of the invocations.
ExtractsOf(s, k) ==
    SelectSeq(s.engineLog, LAMBDA e : e.item = k /\ e.kind = "extract")

\* C14: the extract invocations of a record are those of the segments
\* 0, 1, 2, ... in that order, each once and never more than there are
\* segments; a record with outputSegments unset has none; a point
\* extraction has at most one; and while a failure of the record is
\* pending no further invocation is made.
C14_NoInvocationIsRepeated ==
    /\ [](\A i \in Instances :
            LET s == run[i] IN
            \A k \in 0..(Len(s.items) - 1) :
                LET x == ExtractsOf(s, k) IN
                IF s.operation = "calculateSegments"
                THEN /\ \A n \in 1..Len(x) : x[n].seg = n - 1
                     /\ (k = s.itemIndex /\ s.pc # "thrown")
                           => Len(x) <= Len(s.segments)
                     /\ ~s.items[k + 1].outputSegments => Len(x) = 0
                ELSE Len(x) <= 1)
    /\ [][\A i \in Instances :
            run[i].error # ErrNone
                => run'[i].engineLog = run[i].engineLog]_vars

\* C14 witness: the extraction of a segment that is neither the first nor
\* the last of its record has failed, and the failure is pending.
C14_Witness ==
    \E i \in Instances :
        LET s == run[i] IN
        /\ s.error = ErrEngine
        /\ Len(ExtractsOf(s, s.itemIndex)) >= 2
        /\ Len(ExtractsOf(s, s.itemIndex)) < Len(s.segments)

\* The record is in one of its finally blocks.
InCleanup(s) == s.pc \in {"unlinkOutputs", "unlinkInput", "unlinkOutput"}

\* C15: a step of a finally block, whether its deletion succeeds or fails,
\* leaves the record's outcome as it was before the step: the pending error
\* is kept or is the one reported (thrown, or recovered as the error
\* record), a record without a pending error reports none, and the output
\* records already there are kept as they are.
C15_DeletionNeverChangesTheOutcome ==
    [][\A i \in Instances :
          LET s == run[i]
              n == run'[i]
          IN
          (InCleanup(s) /\ n # s) =>
              /\ n.error \in {s.error, ErrNone}
              /\ IF s.error = ErrNone
                 THEN /\ n.returnData = s.returnData
                      /\ n.thrown = s.thrown
                      /\ n.error = ErrNone
                 ELSE \/ n.returnData = s.returnData /\ n.thrown = s.thrown
                           /\ n.error = s.error /\ InCleanup(n)
                      \/ n.returnData = s.returnData
                           /\ n.thrown = [message |-> s.error,
                                          itemIndex |-> s.itemIndex]
                      \/ n.thrown = s.thrown
                           /\ n.returnData =
                                 Append(s.returnData,
                                        [kind |-> "error",
                                         json |-> [error |-> s.error],
                                         binary |-> <<>>,
                                         pairedItem |-> s.itemIndex])]_vars

\* C15 witness: a run has returned a successful record although a deletion
\* of one of the record's temp files failed and the file is still there.
C15_Witness ==
    \E i \in Instances :
        /\ run[i].pc = "returned"
        /\ unlinkFaults > 0 /\ files # {}
        /\ \E r \in Range(run[i].returnData) : r.kind # "error"

\* The plans an instance has completed: those of its output records and the
\* one of the record in hand once its segment loop has ended.
Plans(s) ==
    {[totalDuration |-> r.json.totalDuration,
      segmentLength |-> r.json.segmentLength,
      overlap |-> r.json.overlap,
      segments |-> r.json.segments] :
        r \in {x \in Range(s.returnData) : x.kind \in {"plan", "batch"}}}
      \cup (IF LoopEnded(s)
            THEN {[totalDuration |-> s.totalDuration,
                   segmentLength |-> s.segmentLength,
                   overlap |-> s.overlap,
                   segments |-> s.segments]}
            ELSE {})

\* C16: two plans computed from the same totalDuration, segmentLength and
\* overlap are the same sequence of descriptors, whatever the record's
\* index, the time and the records before it.
C16_SameInputsSamePlan ==
    \A i, j \in Instances :
        \A p \in Plans(run[i]), q \in Plans(run[j]) :
            (/\ p.totalDuration = q.totalDuration
             /\ p.segmentLength = q.segmentLength
             /\ p.overlap = q.overlap)
                => p.segments = q.segments

\* C16 witness: a run holds the plans of its first and of a later record,
\* computed from the same inputs at different times.
C16_Witness ==
    \E i \in Instances :
        \E a, b \in Range(run[i].returnData) :
            /\ a.kind \in {"plan", "batch"} /\ b.kind \in {"plan", "batch"}
            /\ a.pairedItem = 0 /\ b.pairedItem >= 1
            /\ a.json.totalDuration = b.json.totalDuration
            /\ a.json.segmentLength = b.json.segmentLength
            /\ a.json.overlap = b.json.overlap
            /\ Len(a.json.segments) >= 1
            /\ now > 0

\* The record has its input temp file written and its finally block for it
\* not yet entered.
InputInUse(s) ==
    s.pc \in {"probe", "plan", "segment", "segmentExec", "segmentRead",
              "unlinkOutputs", "extract", "extractRead"}

\* C17: from the write of a record's input temp file to the finally block
\* that deletes it, so during the probe and every extraction, the file
\* exists; only the step of that finally block removes it; in batch mode
\* the deletion of every output temp file of the record has been attempted
\* by then (none is left unless a deletion failed); and from that step on
\* no engine invocation is made for the record.
C17_InputFileOutlivesInvocations ==
    /\ [](\A i \in Instances :
            LET s == run[i] IN
            /\ InputInUse(s) => s.tempInputPath \in files
            /\ (s.pc = "unlinkInput" /\ s.tempOutputPaths # <<>>)
                  => /\ s.cleanIdx = Len(s.tempOutputPaths)
                     /\ unlinkFaults = 0 => OutputFilesOf(s) = {})
    /\ [][\A i \in Instances :
            /\ (run[i].tempInputPath \in files
                   /\ run[i].tempInputPath \notin files')
                  => run[i].pc = "unlinkInput"
            /\ run[i].pc \in {"unlinkInput", "unlinkOutput"}
                  => run'[i].engineLog = run[i].engineLog]_vars

\* C17 witness: a batch record of two or more extracted segments is about
\* to delete its input temp file, its output temp files being gone.
C17_Witness ==
    \E i \in Instances :
        LET s == run[i] IN
        /\ s.pc = "unlinkInput" /\ s.tempInputPath \in files
        /\ Len(s.tempOutputPaths) >= 2 /\ OutputFilesOf(s) = {}
        /\ Len(ExtractsOf(s, s.itemIndex)) >= 2

\* C18 (as claimed): when a record after the first is taken up, every
\* earlier record has its output record, and no temp file of an earlier
\* record exists unless a deletion failed; so the temp files that exist
\* belong to one record only unless a deletion failed.
C18_EarlierRecordsLeaveNoFiles ==
    \A i \in Instances :
        LET s == run[i] IN
        /\ (s.pc = "loop" /\ s.itemIndex >= 1)
              => /\ PairedInOrder(s, s.itemIndex)
                 /\ unlinkFaults = 0 => files = {}
        /\ (s.pc # "idle" /\ unlinkFaults = 0)
              => \A p \in files : p.item = s.itemIndex
====
